---- MODULE Spec2Model ----
(***************************************************************************)
(* A model of lib/datasource.js: the DataSource runtime (adapter loading,  *)
(* connection lifecycle, model registry, discovery delegates, transaction  *)
(* sandbox).                                                                *)
(*                                                                         *)
(* Objects are modelled with identity: every schema (the DataSource and    *)
(* each transaction context) holds REFERENCES to its `models` and          *)
(* `definitions` mapping objects, and every TypeDescriptor holds           *)
(* references to its `properties` and `settings` objects, so aliasing is   *)
(* something the model can show or refute.                                 *)
(*                                                                         *)
(* `trace` is the ordered list of externally visible effects of the last   *)
(* operation (events raised, completions invoked, adapter operations       *)
(* called, nextTick schedulings), each stamped with the lifecycle flags    *)
(* the observer would read at that moment.  `last` describes the last      *)
(* operation itself (who, arguments, flags before the call, what it threw, *)
(* what it returned).                                                      *)
(***************************************************************************)
EXTENDS Integers, Sequences, FiniteSets, Bags, TLC

\* ---------------------------------------------------------------- bounds
MaxTx == 1          \* transaction contexts that may be opened
MaxDefine == 2      \* calls of define that register a type
MaxPending == 1     \* callbacks in flight (held by an adapter or the tick queue)

\* ---------------------------------------------------------------- values
Undefined == "<undefined>"

DS == 0                         \* the DataSource
TxIds == 1..MaxTx               \* the transaction contexts
SchemaIds == {DS} \cup TxIds

ClassNames == {"A", "B"}
PropKeys == {"fk"}
KeyTypes == {"KeyType"}                      \* what an adapter reports as a key's type
FkArities == {3, 4}                          \* adapter.defineForeignKey.length
TableValues == {Undefined, "", "custom"}     \* settings.table as the caller gives it
Cbs == {"cb1", Undefined}                    \* the caller's completion, or none
NoErr == {"null"}                            \* falsy values in an error slot
Errors == {"e1"}
Options == {"opts"}                          \* the options argument of discover*
Owners == {"owner"}
Tables == {"table"}

\* The optional operations of the capability contract (spec section 6).
AllOps == {"define", "defineProperty", "connect", "disconnect", "automigrate",
           "autoupdate", "isActual", "discoverModels", "discoverModelProperties",
           "discoverPrimaryKeys", "discoverForeignKeys", "defineForeignKey",
           "freezeSchema", "transaction"}
StubCaps == {"define"}
MixedCaps == {"define", "connect", "transaction", "isActual", "autoupdate",
              "discoverModels", "discoverPrimaryKeys"}
AdapterCaps == {StubCaps, MixedCaps, AllOps}
TxAdapterCaps == {{"define", "exec"}, {"define", "exec", "connect"}}

NoAdapter == [present |-> FALSE, caps |-> {}, hooks |-> FALSE]
MkAdapter(caps) == [present |-> TRUE, caps |-> caps, hooks |-> FALSE]
Has(a, op) == a.present /\ op \in a.caps

\* How the backend identifier given to the constructor resolves (lines 79-101).
NameKinds == {"none", "object", "abspathOk", "abspathMissing", "builtin",
              "foreignOk", "foreignMissing"}

VARIABLES
    born,            \* s -> the object exists and was handed to the caller
    isTransaction,   \* s -> its isTransaction field
    connected,       \* s -> its connected field
    connecting,      \* s -> its connecting field
    adapter,         \* s -> its adapter field
    hasConnect,      \* s -> its connect field holds the connect operation
    modelsRef,       \* s -> the mapping object its models field refers to
    definitionsRef,  \* s -> the mapping object its definitions field refers to
    modelsHeap,      \* mapping object -> (type name -> class)
    definitionsHeap, \* mapping object -> (type name -> TypeDescriptor)
    settingsHeap,    \* settings object -> its table entry
    propsHeap,       \* properties object -> (key -> FieldDescriptor type)
    pending,         \* callbacks in flight: a bag (they may fire in any order)
    trace,           \* effects of the last operation, in order
    last             \* the last operation

objVars == <<born, isTransaction, adapter, hasConnect, modelsRef, definitionsRef>>
lifeVars == <<connected, connecting>>
regVars == <<modelsHeap, definitionsHeap, settingsHeap, propsHeap>>
vars == <<born, isTransaction, connected, connecting, adapter, hasConnect,
          modelsRef, definitionsRef, modelsHeap, definitionsHeap, settingsHeap,
          propsHeap, pending, trace, last>>

\* ---------------------------------------------------------------- helpers
NoClass == [present |-> FALSE, def |-> 0, owner |-> DS]
NoDescriptor == [present |-> FALSE, properties |-> 0, settings |-> 0]
EmptyModels == [n \in ClassNames |-> NoClass]
EmptyDefinitions == [n \in ClassNames |-> NoDescriptor]
NoRef == <<>>                   \* a field not yet assigned
Ref(s) == <<s>>                 \* the mapping object allocated for schema s
Refs == {Ref(s) : s \in SchemaIds}

Keys(m) == {n \in ClassNames : m[n].present}
Models(s) == modelsHeap[modelsRef[s]]
Definitions(s) == definitionsHeap[definitionsRef[s]]

\* One visible effect, with the flags of `who` as an observer reads them then.
Eff(kind, who, what, args, c, g) ==
    [kind |-> kind, who |-> who, what |-> what, args |-> args,
     connected |-> c, connecting |-> g]

Op(op, who, cb, args, threw, ret) ==
    [op |-> op, who |-> who, cb |-> cb, args |-> args, threw |-> threw, ret |-> ret,
     preConnected |-> IF who \in SchemaIds THEN connected[who] ELSE FALSE,
     preConnecting |-> IF who \in SchemaIds THEN connecting[who] ELSE FALSE]

\* A callback in flight: its kind, the schema it is bound to, the caller's
\* completion it wraps, and the values its closure captured.
PendOn(kind, who, cb, about) == [kind |-> kind, who |-> who, cb |-> cb, about |-> about]
Pend(kind, who, cb) == PendOn(kind, who, cb, <<>>)
Queue(q, p) == q (+) SetToBag({p})
Fire(q, p) == q (-) SetToBag({p})
InFlight == BagCardinality(pending)

\* Before the constructor has run: nothing exists yet.
InitLife ==
    /\ born = [s \in SchemaIds |-> FALSE]
    /\ isTransaction = [s \in SchemaIds |-> FALSE]
    /\ connected = [s \in SchemaIds |-> FALSE]
    /\ connecting = [s \in SchemaIds |-> FALSE]
    /\ adapter = [s \in SchemaIds |-> NoAdapter]
    /\ hasConnect = [s \in SchemaIds |-> FALSE]
    /\ modelsRef = [s \in SchemaIds |-> NoRef]
    /\ definitionsRef = [s \in SchemaIds |-> NoRef]
    /\ modelsHeap = [r \in Refs |-> EmptyModels]
    /\ definitionsHeap = [r \in Refs |-> EmptyDefinitions]
    /\ settingsHeap = <<>>
    /\ propsHeap = <<>>
    /\ pending = EmptyBag
    /\ trace = <<>>
    /\ last = Op("init", DS, Undefined, <<>>, "none", Undefined)

\* After new DataSource(name, settings) has returned and, when an adapter was
\* resolved, its initialize completion has run: either no adapter (no name
\* given: connect installed; unresolved name: setup returned before installing
\* connect), or an adapter with its hooks installed and connected = true.
Init ==
    /\ \E a \in {NoAdapter} \cup {[MkAdapter(c) EXCEPT !.hooks = TRUE] : c \in AdapterCaps} :
         /\ adapter = [s \in SchemaIds |-> IF s = DS THEN a ELSE NoAdapter]
         /\ connected = [s \in SchemaIds |-> s = DS /\ a.present]
         /\ \E h \in BOOLEAN :
              /\ a.present => h
              /\ hasConnect = [s \in SchemaIds |-> s = DS /\ h]
    /\ born = [s \in SchemaIds |-> s = DS]
    /\ isTransaction = [s \in SchemaIds |-> FALSE]
    /\ connecting = [s \in SchemaIds |-> FALSE]
    /\ modelsRef = [s \in SchemaIds |-> IF s = DS THEN Ref(DS) ELSE NoRef]
    /\ definitionsRef = [s \in SchemaIds |-> IF s = DS THEN Ref(DS) ELSE NoRef]
    /\ modelsHeap = [r \in Refs |-> EmptyModels]
    /\ definitionsHeap = [r \in Refs |-> EmptyDefinitions]
    /\ settingsHeap = <<>>
    /\ propsHeap = <<>>
    /\ pending = EmptyBag
    /\ trace = <<>>
    /\ last = Op("init", DS, Undefined, <<>>, "none", Undefined)

\* ------------------------------------------------------- adapter loader

\* Faulty variant: the 'connected' event is raised before connected is set.
InitializeDoneEmitFirst(s, a, c, g) ==
    IF ~a.present
    THEN [threw |-> "Error: Adapter is not defined correctly", adapter |-> a,
          connected |-> c, trace |-> <<>>]
    ELSE [threw |-> "none",
          adapter |-> [a EXCEPT !.hooks = TRUE],
          connected |-> TRUE,
          trace |-> <<Eff("hook", s, "log", <<>>, c, g),
                      Eff("hook", s, "logger", <<>>, c, g),
                      Eff("emit", s, "connected", <<>>, c, g)>>]

\* The completion handed to adapter.initialize (lines 104-126), run for schema s
\* whose adapter field currently holds a: what it throws, the adapter field,
\* the connected flag and the effects afterwards.
InitializeDone(s, a, c, g) ==
    IF ~a.present
    THEN [threw |-> "Error: Adapter is not defined correctly", adapter |-> a,
          connected |-> c, trace |-> <<>>]
    ELSE [threw |-> "none",
          adapter |-> [a EXCEPT !.hooks = TRUE],
          connected |-> TRUE,
          trace |-> <<Eff("hook", s, "log", <<>>, c, g),
                      Eff("hook", s, "logger", <<>>, c, g),
                      Eff("emit", s, "connected", <<>>, TRUE, g)>>]

\* Whether the identifier resolves to an adapter module, and what setup does
\* when it does not (lines 79-101).
Resolve(nameKind) ==
    CASE nameKind = "none" -> "noAdapter"
      [] nameKind = "object" -> "adapter"
      [] nameKind = "abspathOk" -> "adapter"
      [] nameKind = "abspathMissing" -> "throw"       \* require(name) throws
      [] nameKind = "builtin" -> "adapter"
      [] nameKind = "foreignOk" -> "adapter"
      [] nameKind = "foreignMissing" -> "warn"        \* caught: warning, return

\* new DataSource(name, settings): the ADL constructor, then setup (lines 51-57, 68-149).
\* sets: initialize assigns schema.adapter; caps: the adapter it assigns;
\* doneMode: initialize calls its completion before returning, or later.
DataSource(nameKind, sets, caps, doneMode) ==
    LET s == DS
        r == Resolve(nameKind)
        a == IF r = "adapter" /\ sets THEN MkAdapter(caps) ELSE NoAdapter
        done == InitializeDone(s, a, FALSE, FALSE)
        sync == r = "adapter" /\ doneMode = "sync"
        threw == IF r = "throw" THEN "Error: Cannot find module"
                 ELSE IF sync THEN done.threw ELSE "none"
        warn == IF r = "warn" THEN <<Eff("warn", s, "adapter is not installed", <<>>, FALSE, FALSE)>>
                ELSE <<>>
        init == IF r = "adapter" THEN <<Eff("adapter", s, "initialize", <<>>, FALSE, FALSE)>>
                ELSE <<>>
    IN  /\ ~born[s]
        /\ r = "adapter" /\ doneMode = "async" => InFlight < MaxPending
        /\ last' = Op("new", s, Undefined, <<nameKind>>, threw, Undefined)
        /\ trace' = warn \o init \o (IF sync THEN done.trace ELSE <<>>)
        /\ IF threw # "none"
           THEN UNCHANGED <<objVars, lifeVars, regVars, pending>>
           ELSE /\ born' = [born EXCEPT ![s] = TRUE]
                /\ modelsRef' = [modelsRef EXCEPT ![s] = Ref(s)]
                /\ definitionsRef' = [definitionsRef EXCEPT ![s] = Ref(s)]
                /\ modelsHeap' = [modelsHeap EXCEPT ![Ref(s)] = EmptyModels]
                /\ definitionsHeap' = [definitionsHeap EXCEPT ![Ref(s)] = EmptyDefinitions]
                /\ adapter' = [adapter EXCEPT ![s] = IF sync THEN done.adapter ELSE a]
                /\ connected' = [connected EXCEPT ![s] = IF sync THEN done.connected ELSE FALSE]
                /\ connecting' = [connecting EXCEPT ![s] = FALSE]
                /\ hasConnect' = [hasConnect EXCEPT ![s] = r # "warn"]
                /\ pending' = IF r = "adapter" /\ doneMode = "async"
                              THEN Queue(pending, Pend("initDone", s, Undefined))
                              ELSE pending
                /\ UNCHANGED <<isTransaction, settingsHeap, propsHeap>>

\* The adapter calls the initialize completion later (lines 104-126).
InitDone(p) ==
    /\ BagIn(p, pending)
    /\ p.kind = "initDone"
    /\ LET s == p.who
           done == InitializeDone(s, adapter[s], connected[s], connecting[s])
       IN  /\ last' = Op("initDone", s, Undefined, <<>>, done.threw, Undefined)
           /\ trace' = done.trace
           /\ adapter' = [adapter EXCEPT ![s] = done.adapter]
           /\ connected' = [connected EXCEPT ![s] = done.connected]
           /\ pending' = Fire(pending, p)
           /\ UNCHANGED <<born, isTransaction, hasConnect, modelsRef, definitionsRef,
                          connecting, regVars>>

\* --------------------------------------------------- connection lifecycle

\* Faulty variant: the 'connected' event is raised before the flags are updated.
ConnectCallbackEmitFirst(s, cb, err, c, g) ==
    LET ok == err \in NoErr
        c1 == IF ok THEN TRUE ELSE c
        g1 == IF ok THEN FALSE ELSE g
    IN  [connected |-> c1, connecting |-> g1,
         trace |-> (IF ok THEN <<Eff("emit", s, "connected", <<>>, c, g)>> ELSE <<>>)
                   \o (IF cb # Undefined THEN <<Eff("cb", s, cb, <<err>>, c1, g1)>> ELSE <<>>)]

\* Faulty variant: the adapter's error is swallowed; the completion sees no error.
ConnectCallbackSwallow(s, cb, err, c, g) ==
    LET ok == err \in NoErr
        c1 == IF ok THEN TRUE ELSE c
        g1 == IF ok THEN FALSE ELSE g
    IN  [connected |-> c1, connecting |-> g1,
         trace |-> (IF ok THEN <<Eff("emit", s, "connected", <<>>, c1, g1)>> ELSE <<>>)
                   \o (IF cb # Undefined THEN <<Eff("cb", s, cb, <<"null">>, c1, g1)>> ELSE <<>>)]

\* The callback connect hands to adapter.connect (lines 133-142), called with err.
ConnectCallback(s, cb, err, c, g) ==
    LET ok == err \in NoErr
        c1 == IF ok THEN TRUE ELSE c
        g1 == IF ok THEN FALSE ELSE g
    IN  [connected |-> c1, connecting |-> g1,
         trace |-> (IF ok THEN <<Eff("emit", s, "connected", <<>>, c1, g1)>> ELSE <<>>)
                   \o (IF cb # Undefined THEN <<Eff("cb", s, cb, <<err>>, c1, g1)>> ELSE <<>>)]

\* Faulty variant: connect works on the DataSource it was created for, whatever
\* object it is called on.
ConnectSchemaOrigin(s) == DS

\* `var schema = this` (line 130): the object whose adapter connect reads and
\* whose flags it and its callback write is the one connect is called on.
ConnectSchema(s) == s

\* schema.connect(cb) (lines 129-148) called on schema s.  mode: the adapter
\* calls the callback before adapter.connect returns (with err), or later.
connect(s, cb, mode, err) ==
    LET schema == ConnectSchema(s)
        a == adapter[schema]
        callback == ConnectCallback(schema, cb, err, connected[schema], TRUE)
        call == <<Eff("adapter", schema, "connect", <<"callback">>, connected[schema], TRUE)>>
    IN  /\ born[s]
        /\ IF ~hasConnect[s]
           THEN /\ last' = Op("connect", s, cb, <<>>, "TypeError", Undefined)
                /\ trace' = <<>>
                /\ UNCHANGED <<objVars, lifeVars, regVars, pending>>
           ELSE IF ~a.present
           THEN /\ last' = Op("connect", s, cb, <<>>, "TypeError", Undefined)
                /\ trace' = <<>>
                /\ connecting' = [connecting EXCEPT ![schema] = TRUE]
                /\ UNCHANGED <<objVars, connected, regVars, pending>>
           ELSE IF Has(a, "connect")
           THEN IF mode = "sync"
                THEN /\ last' = Op("connect", s, cb, <<mode, err>>, "none", Undefined)
                     /\ trace' = call \o callback.trace
                     /\ connected' = [connected EXCEPT ![schema] = callback.connected]
                     /\ connecting' = [connecting EXCEPT ![schema] = callback.connecting]
                     /\ UNCHANGED <<objVars, regVars, pending>>
                ELSE /\ InFlight < MaxPending
                     /\ last' = Op("connect", s, cb, <<mode>>, "none", Undefined)
                     /\ trace' = call
                     /\ connecting' = [connecting EXCEPT ![schema] = TRUE]
                     /\ pending' = Queue(pending, Pend("connectCb", schema, cb))
                     /\ UNCHANGED <<objVars, connected, regVars>>
           ELSE /\ cb # Undefined => InFlight < MaxPending
                /\ last' = Op("connect", s, cb, <<>>, "none", Undefined)
                /\ trace' = IF cb # Undefined
                             THEN <<Eff("tick", schema, cb, <<>>, connected[schema], TRUE)>>
                             ELSE <<>>
                /\ connecting' = [connecting EXCEPT ![schema] = TRUE]
                /\ pending' = IF cb # Undefined
                              THEN Queue(pending, Pend("tick", schema, cb))
                              ELSE pending
                /\ UNCHANGED <<objVars, connected, regVars>>

\* The adapter calls the connect callback later, with err (lines 133-142).
ConnectCb(p, err) ==
    /\ BagIn(p, pending)
    /\ p.kind = "connectCb"
    /\ LET s == p.who
           callback == ConnectCallback(s, p.cb, err, connected[s], connecting[s])
       IN  /\ last' = Op("connectCb", s, p.cb, <<err>>, "none", Undefined)
           /\ trace' = callback.trace
           /\ connected' = [connected EXCEPT ![s] = callback.connected]
           /\ connecting' = [connecting EXCEPT ![s] = callback.connecting]
           /\ pending' = Fire(pending, p)
           /\ UNCHANGED <<objVars, regVars>>

\* The runtime runs a completion queued by process.nextTick(cb) (line 145):
\* it is called with no arguments.
Tick(p) ==
    /\ BagIn(p, pending)
    /\ p.kind = "tick"
    /\ LET s == p.who
       IN  /\ last' = Op("tick", s, p.cb, <<>>, "none", Undefined)
           /\ trace' = <<Eff("cb", s, p.cb, <<>>, connected[s], connecting[s])>>
           /\ pending' = Fire(pending, p)
           /\ UNCHANGED <<objVars, lifeVars, regVars>>

\* Faulty variant: the adapter's disconnect is invoked before connected is cleared.
disconnectLate(s, cb) ==
    LET a == adapter[s]
    IN  /\ born[s] /\ ~isTransaction[s]
        /\ last' = Op("disconnect", s, cb, <<>>, IF a.present THEN "none" ELSE "TypeError", Undefined)
        /\ trace' = IF Has(a, "disconnect")
                     THEN <<Eff("adapter", s, "disconnect", <<cb>>, connected[s], connecting[s])>>
                     ELSE IF a.present /\ cb # Undefined
                     THEN <<Eff("cb", s, cb, <<>>, connected[s], connecting[s])>>
                     ELSE <<>>
        /\ connected' = IF Has(a, "disconnect") THEN [connected EXCEPT ![s] = FALSE] ELSE connected
        /\ UNCHANGED <<objVars, connecting, regVars, pending>>

\* DataSource.prototype.disconnect(cb) (lines 416-423).
disconnect(s, cb) ==
    LET a == adapter[s]
    IN  /\ born[s] /\ ~isTransaction[s]
        /\ IF ~a.present
           THEN /\ last' = Op("disconnect", s, cb, <<>>, "TypeError", Undefined)
                /\ trace' = <<>>
                /\ UNCHANGED <<objVars, lifeVars, regVars, pending>>
           ELSE IF Has(a, "disconnect")
           THEN /\ last' = Op("disconnect", s, cb, <<>>, "none", Undefined)
                /\ connected' = [connected EXCEPT ![s] = FALSE]
                /\ trace' = <<Eff("adapter", s, "disconnect", <<cb>>, FALSE, connecting[s])>>
                /\ UNCHANGED <<objVars, connecting, regVars, pending>>
           ELSE /\ last' = Op("disconnect", s, cb, <<>>, "none", Undefined)
                /\ trace' = IF cb # Undefined
                             THEN <<Eff("cb", s, cb, <<>>, connected[s], connecting[s])>>
                             ELSE <<>>
                /\ UNCHANGED <<objVars, lifeVars, regVars, pending>>

\* ----------------------------------------------------- discovery delegate

\* DataSource.prototype.freeze (lines 370-374): what it throws and its effects.
freeze(s) ==
    IF ~adapter[s].present
    THEN [threw |-> "TypeError", trace |-> <<>>]
    ELSE [threw |-> "none",
          trace |-> IF Has(adapter[s], "freezeSchema")
                    THEN <<Eff("adapter", s, "freezeSchema", <<>>, connected[s], connecting[s])>>
                    ELSE <<>>]

\* Faulty variant: the completion is invoked by the DataSource even when the call was
\* forwarded to the adapter.
DelegateAlsoCompletes(s, op, args, cb, dflt) ==
    LET f == freeze(s)
        fwd == IF Has(adapter[s], op)
               THEN <<Eff("adapter", s, op, args \o <<cb>>, connected[s], connecting[s])>>
               ELSE <<>>
        done == IF cb # Undefined
                THEN <<Eff("cb", s, cb, dflt, connected[s], connecting[s])>>
                ELSE <<>>
    IN  /\ born[s] /\ ~isTransaction[s]
        /\ last' = Op(op, s, cb, args, f.threw, Undefined)
        /\ trace' = IF f.threw # "none" THEN <<>> ELSE f.trace \o fwd \o done
        /\ UNCHANGED <<objVars, lifeVars, regVars, pending>>

\* The pattern shared by the seven delegates: freeze, then forward op with the
\* caller's arguments and completion if the adapter has it, else call the
\* completion with the arguments dflt.
Delegate(s, op, args, cb, dflt) ==
    LET f == freeze(s)
        fwd == IF Has(adapter[s], op)
               THEN <<Eff("adapter", s, op, args \o <<cb>>, connected[s], connecting[s])>>
               ELSE IF cb # Undefined
               THEN <<Eff("cb", s, cb, dflt, connected[s], connecting[s])>>
               ELSE <<>>
    IN  /\ born[s] /\ ~isTransaction[s]
        /\ last' = Op(op, s, cb, args, f.threw, Undefined)
        /\ trace' = IF f.threw # "none" THEN <<>> ELSE f.trace \o fwd
        /\ UNCHANGED <<objVars, lifeVars, regVars, pending>>

\* lines 236-243
automigrate(s, cb) == Delegate(s, "automigrate", <<>>, cb, <<>>)
\* lines 249-256
autoupdate(s, cb) == Delegate(s, "autoupdate", <<>>, cb, <<>>)
\* lines 268-275
discoverModels(s, options, cb) == Delegate(s, "discoverModels", <<options>>, cb, <<>>)
\* lines 285-292
discoverModelProperties(s, options, cb) ==
    Delegate(s, "discoverModelProperties", <<options>>, cb, <<>>)
\* lines 308-315
discoverPrimaryKeys(s, owner, table, cb) ==
    Delegate(s, "discoverPrimaryKeys", <<owner, table>>, cb, <<>>)
\* lines 335-342
discoverForeignKeys(s, owner, table, cb) ==
    Delegate(s, "discoverForeignKeys", <<owner, table>>, cb, <<>>)
\* lines 348-355
isActual(s, cb) == Delegate(s, "isActual", <<>>, cb, <<"null", "true">>)

\* ----------------------------------------------------------- model registry

\* ADL.prototype.define: stores the new class in models and its TypeDescriptor
\* {properties, settings} in definitions, under className.
ADLdefine(s, className, id) ==
    /\ modelsHeap' = [modelsHeap EXCEPT ![modelsRef[s]][className] =
                          [present |-> TRUE, def |-> id, owner |-> s]]
    /\ definitionsHeap' = [definitionsHeap EXCEPT ![definitionsRef[s]][className] =
                          [present |-> TRUE, properties |-> id, settings |-> id]]

\* The call of adapter.define that ends define and copyModel (lines 202-209, 451-457).
AdapterDefine(s, a, className) ==
    IF Has(a, "define")
    THEN [threw |-> "none",
          trace |-> <<Eff("adapter", s, "define", <<className>>, connected[s], connecting[s])>>]
    ELSE [threw |-> "TypeError", trace |-> <<>>]

\* DataSource.prototype.define(className, properties, settings) (lines 182-213),
\* with `this` = s, called with an empty properties map; table: settings.table
\* as the caller gives it.
define(s, className, table) ==
    LET id == Len(settingsHeap) + 1
        ad == IF adapter[s].present THEN AdapterDefine(s, adapter[s], className)
              ELSE [threw |-> "none", trace |-> <<>>]
    IN  /\ born[s]
        /\ IF className = ""
           THEN /\ last' = Op("define", s, Undefined, <<className>>,
                              "Error: Class name required", Undefined)
                /\ trace' = <<>>
                /\ UNCHANGED <<objVars, lifeVars, regVars, pending>>
           ELSE /\ id <= MaxDefine
                /\ settingsHeap' = Append(settingsHeap, table)
                /\ propsHeap' = Append(propsHeap, [k \in PropKeys |-> Undefined])
                /\ ADLdefine(s, className, id)
                /\ last' = Op("define", s, Undefined, <<className>>, ad.threw, className)
                /\ trace' = ad.trace
                /\ UNCHANGED <<objVars, lifeVars, pending>>

\* ADL.prototype.defineProperty: sets definitions[model].properties[prop] = params.
ADLdefineProperty(props, prop, params) == [props EXCEPT ![prop] = params]

\* DataSource.prototype.defineProperty(model, prop, params) (lines 222-228).
defineProperty(s, model, prop, params) ==
    LET d == Definitions(s)[model]
        a == adapter[s]
    IN  /\ born[s] /\ ~isTransaction[s]
        /\ IF ~d.present
           THEN /\ last' = Op("defineProperty", s, Undefined, <<model, prop>>, "TypeError", Undefined)
                /\ trace' = <<>>
                /\ UNCHANGED <<objVars, lifeVars, regVars, pending>>
           ELSE /\ propsHeap' = [propsHeap EXCEPT ![d.properties] =
                                    ADLdefineProperty(@, prop, params)]
                /\ last' = Op("defineProperty", s, Undefined, <<model, prop>>,
                              IF a.present THEN "none" ELSE "TypeError", Undefined)
                /\ trace' = IF Has(a, "defineProperty")
                             THEN <<Eff("adapter", s, "defineProperty", <<model, prop, params>>,
                                        connected[s], connecting[s])>>
                             ELSE <<>>
                /\ UNCHANGED <<objVars, lifeVars, modelsHeap, definitionsHeap, settingsHeap, pending>>

\* Faulty variant: the default is returned but not stored in the settings.
tableNameNoStore(s, modelName) ==
    LET d == Definitions(s)[modelName]
        t == settingsHeap[d.settings]
        v == IF t \in {Undefined, ""} THEN modelName ELSE t
    IN  /\ born[s]
        /\ IF ~d.present
           THEN last' = Op("tableName", s, Undefined, <<modelName>>, "TypeError", Undefined)
           ELSE last' = Op("tableName", s, Undefined, <<modelName>>, "none", v)
        /\ trace' = <<>>
        /\ UNCHANGED <<objVars, lifeVars, regVars, pending>>

\* DataSource.prototype.tableName(modelName) (lines 380-382), with `this` = s.
tableName(s, modelName) ==
    LET d == Definitions(s)[modelName]
        t == settingsHeap[d.settings]
        v == IF t \in {Undefined, ""} THEN modelName ELSE t     \* table || modelName
    IN  /\ born[s]
        /\ IF ~d.present
           THEN /\ last' = Op("tableName", s, Undefined, <<modelName>>, "TypeError", Undefined)
                /\ UNCHANGED settingsHeap
           ELSE /\ last' = Op("tableName", s, Undefined, <<modelName>>, "none", v)
                /\ settingsHeap' = [settingsHeap EXCEPT ![d.settings] = v]
        /\ trace' = <<>>
        /\ UNCHANGED <<objVars, lifeVars, modelsHeap, definitionsHeap, propsHeap, pending>>

\* The completion handed to adapter.defineForeignKey (lines 394-397), bound to
\* schema s, called with (err, keyType): what it throws and the properties heap
\* afterwards.  definitions[className] is looked up when it runs.
ForeignKeyCallback(s, className, key, err, keyType, ph) ==
    IF err \notin NoErr
    THEN [threw |-> err, props |-> ph]
    ELSE [threw |-> "none",
          props |-> [ph EXCEPT ![Definitions(s)[className].properties][key] = keyType]]

\* this.models[className].registerProperty(key) (line 410); the effect records
\* the FieldDescriptor that properties[key] holds at that moment.
RegisterProperty(s, className, key, ph) ==
    <<Eff("model", s, "registerProperty",
          <<className, key, ph[Definitions(s)[className].properties][key]>>,
          connected[s], connecting[s])>>

\* The arguments adapter.defineForeignKey is called with (lines 398-405).
ForeignKeyCall(s, className, key, foreignClassName, arity) ==
    <<Eff("adapter", s, "defineForeignKey",
          IF arity = 4 THEN <<className, key, foreignClassName, "cb">>
          ELSE <<className, key, "cb">>,
          connected[s], connecting[s])>>

\* DataSource.prototype.defineForeignKey(className, key, foreignClassName)
\* (lines 389-411), with `this` = s.  arity: the length of the adapter's
\* defineForeignKey; mode: the adapter calls the completion before returning
\* (with err and keyType), or later.
defineForeignKey(s, className, key, foreignClassName, arity, mode, err, keyType) ==
    LET d == Definitions(s)[className]
        a == adapter[s]
        call == ForeignKeyCall(s, className, key, foreignClassName, arity)
        done == ForeignKeyCallback(s, className, key, err, keyType, propsHeap)
        generic == [propsHeap EXCEPT ![d.properties][key] = "Number"]
    IN  /\ born[s] /\ ~isTransaction[s]
        /\ IF ~d.present
           THEN /\ last' = Op("defineForeignKey", s, Undefined, <<className, key>>,
                              "TypeError", Undefined)
                /\ trace' = <<>>
                /\ UNCHANGED <<objVars, lifeVars, regVars, pending>>
           ELSE IF propsHeap[d.properties][key] # Undefined
           THEN /\ last' = Op("defineForeignKey", s, Undefined, <<className, key>>,
                              "none", Undefined)
                /\ trace' = <<>>
                /\ UNCHANGED <<objVars, lifeVars, regVars, pending>>
           ELSE IF ~a.present
           THEN /\ last' = Op("defineForeignKey", s, Undefined, <<className, key>>,
                              "TypeError", Undefined)
                /\ trace' = <<>>
                /\ UNCHANGED <<objVars, lifeVars, regVars, pending>>
           ELSE IF ~Has(a, "defineForeignKey")
           THEN /\ last' = Op("defineForeignKey", s, Undefined, <<className, key>>,
                              "none", Undefined)
                /\ propsHeap' = generic
                /\ trace' = RegisterProperty(s, className, key, generic)
                /\ UNCHANGED <<objVars, lifeVars, modelsHeap, definitionsHeap,
                               settingsHeap, pending>>
           ELSE IF mode = "sync"
           THEN /\ last' = Op("defineForeignKey", s, Undefined, <<className, key>>,
                              done.threw, Undefined)
                /\ propsHeap' = done.props
                /\ trace' = call \o (IF done.threw = "none"
                                      THEN RegisterProperty(s, className, key, done.props)
                                      ELSE <<>>)
                /\ UNCHANGED <<objVars, lifeVars, modelsHeap, definitionsHeap,
                               settingsHeap, pending>>
           ELSE /\ InFlight < MaxPending
                /\ last' = Op("defineForeignKey", s, Undefined, <<className, key>>,
                              "none", Undefined)
                /\ trace' = call \o RegisterProperty(s, className, key, propsHeap)
                /\ pending' = Queue(pending, PendOn("fkCb", s, Undefined, <<className, key>>))
                /\ UNCHANGED <<objVars, lifeVars, regVars>>

\* The adapter calls the defineForeignKey completion later (lines 394-397),
\* with (err, keyType).
ForeignKeyCb(p, err, keyType) ==
    /\ BagIn(p, pending)
    /\ p.kind = "fkCb"
    /\ LET s == p.who
           done == ForeignKeyCallback(s, p.about[1], p.about[2], err, keyType, propsHeap)
       IN  /\ last' = Op("fkCb", s, Undefined, <<p.about[1], p.about[2], err>>,
                         done.threw, Undefined)
           /\ trace' = <<>>
           /\ propsHeap' = done.props
           /\ pending' = Fire(pending, p)
           /\ UNCHANGED <<objVars, lifeVars, modelsHeap, definitionsHeap, settingsHeap>>

\* ------------------------------------------------------ transaction sandbox

\* Faulty variant: the class is stored in models but its TypeDescriptor is not stored.
CopyIntoModelsOnly(t, mref, dref, name, Master, mh, dh) ==
    IF mh[mref][name].present
    THEN [models |-> mh, definitions |-> dh, stored |-> FALSE, threw |-> "none"]
    ELSE [models |-> [mh EXCEPT ![mref][name] =
                         [present |-> TRUE, def |-> Master.def, owner |-> t]],
          definitions |-> dh, stored |-> TRUE, threw |-> "none"]

\* The registry part of copyModel (lines 427-428, 442-449): Master is a class
\* (its modelName is name, its schema is Master.owner); the target's mappings
\* are the objects mref and dref of the heaps mh and dh.  md is read from the
\* definitions of Master's schema.  Returns the heaps afterwards, whether the
\* class was stored, and whether reading md.properties threw.
CopyInto(t, mref, dref, name, Master, mh, dh) ==
    LET md == dh[definitionsRef[Master.owner]][name]
        Slave == [present |-> TRUE, def |-> Master.def, owner |-> t]
    IN  IF mh[mref][name].present
        THEN [models |-> mh, definitions |-> dh, stored |-> FALSE, threw |-> "none"]
        ELSE IF ~md.present
        THEN [models |-> [mh EXCEPT ![mref][name] = Slave], definitions |-> dh,
              stored |-> TRUE, threw |-> "TypeError"]
        ELSE [models |-> [mh EXCEPT ![mref][name] = Slave],
              definitions |-> [dh EXCEPT ![dref][name] =
                                 [present |-> TRUE, properties |-> md.properties,
                                  settings |-> md.settings]],
              stored |-> TRUE, threw |-> "none"]

\* Faulty variant: adapter.define is called for a stored class whatever the target is.
CopyDefineAlways(t, isTx, a, name, r) ==
    IF r.stored /\ r.threw = "none"
    THEN IF a.present THEN AdapterDefine(t, a, name)
         ELSE [threw |-> "TypeError", trace |-> <<>>]
    ELSE [threw |-> r.threw, trace |-> <<>>]

\* The end of copyModel's store branch (lines 451-457): after the registry
\* part r, adapter.define is called on the target's adapter a when the class
\* was stored and the target (whose isTransaction is isTx) is not a
\* transaction.  What copyModel throws, and the adapter calls it made.
CopyDefine(t, isTx, a, name, r) ==
    IF r.stored /\ r.threw = "none" /\ ~isTx
    THEN IF a.present THEN AdapterDefine(t, a, name)
         ELSE [threw |-> "TypeError", trace |-> <<>>]
    ELSE [threw |-> r.threw, trace |-> <<>>]

\* DataSource.prototype.copyModel(Master) (lines 425-462), with `this` = t;
\* Master is the class registered as name in schema src.
copyModel(t, src, name) ==
    LET Master == Models(src)[name]
        r == CopyInto(t, modelsRef[t], definitionsRef[t], name, Master,
                      modelsHeap, definitionsHeap)
        ad == CopyDefine(t, isTransaction[t], adapter[t], name, r)
    IN  /\ born[t] /\ born[src]
        /\ Master.present
        /\ modelsHeap' = r.models
        /\ definitionsHeap' = r.definitions
        /\ last' = Op("copyModel", t, Undefined, <<name>>, ad.threw, name)
        /\ trace' = ad.trace
        /\ UNCHANGED <<objVars, lifeVars, settingsHeap, propsHeap, pending>>

\* The loop of transaction() (lines 479-481): copyModel against the new
\* context t (isTransaction = true, adapter a) for every class of the
\* parent's models; it ends at the first copyModel that throws.
RECURSIVE CopyAll(_, _, _, _, _, _, _)
CopyAll(t, a, refs, parent, names, mh, dh) ==
    IF names = {} THEN [models |-> mh, definitions |-> dh, threw |-> "none", trace |-> <<>>]
    ELSE LET n == CHOOSE x \in names : TRUE
             r == CopyInto(t, refs.models, refs.definitions, n,
                           mh[modelsRef[parent]][n], mh, dh)
             ad == CopyDefine(t, TRUE, a, n, r)
             rest == CopyAll(t, a, refs, parent, names \ {n}, r.models, r.definitions)
         IN  IF ad.threw # "none"
             THEN [models |-> r.models, definitions |-> r.definitions,
                   threw |-> ad.threw, trace |-> ad.trace]
             ELSE [models |-> rest.models, definitions |-> rest.definitions,
                   threw |-> rest.threw, trace |-> ad.trace \o rest.trace]

\* Faulty variant: the new context is given the parent's own mapping objects.
TransactionRefsShared(t, parent) ==
    [models |-> modelsRef[parent], definitions |-> definitionsRef[parent]]

\* The mapping objects the new context's models and definitions fields hold
\* (lines 476-477): fresh ones.
TransactionRefs(t, parent) == [models |-> Ref(t), definitions |-> Ref(t)]

\* DataSource.prototype.transaction() (lines 464-490) on schema s, creating
\* context t; txCaps: the adapter that adapter.transaction() returns.
transaction(s, t, txCaps) ==
    LET refs == TransactionRefs(t, s)
        blankM == [modelsHeap EXCEPT ![Ref(t)] = EmptyModels]
        blankD == [definitionsHeap EXCEPT ![Ref(t)] = EmptyDefinitions]
        r == CopyAll(t, MkAdapter(txCaps), refs, s, Keys(Models(s)), blankM, blankD)
        call == <<Eff("adapter", s, "transaction", <<>>, connected[s], connecting[s])>>
    IN  /\ born[s] /\ ~isTransaction[s]
        /\ IF ~Has(adapter[s], "transaction")
           THEN /\ last' = Op("transaction", s, Undefined, <<>>, "TypeError", Undefined)
                /\ trace' = <<>>
                /\ UNCHANGED <<objVars, lifeVars, regVars, pending>>
           ELSE /\ t \in TxIds /\ ~born[t] /\ \A u \in TxIds : u < t => born[u]
                /\ last' = Op("transaction", s, Undefined, <<>>, r.threw, Undefined)
                /\ trace' = call \o r.trace
                /\ IF r.threw # "none"
                   THEN UNCHANGED <<objVars, lifeVars, regVars, pending>>
                   ELSE /\ born' = [born EXCEPT ![t] = TRUE]
                        /\ isTransaction' = [isTransaction EXCEPT ![t] = TRUE]
                        /\ connected' = [connected EXCEPT ![t] = FALSE]
                        /\ connecting' = [connecting EXCEPT ![t] = FALSE]
                        /\ adapter' = [adapter EXCEPT ![t] = MkAdapter(txCaps)]
                        /\ hasConnect' = [hasConnect EXCEPT ![t] = hasConnect[s]]
                        /\ modelsRef' = [modelsRef EXCEPT ![t] = refs.models]
                        /\ definitionsRef' = [definitionsRef EXCEPT ![t] = refs.definitions]
                        /\ modelsHeap' = r.models
                        /\ definitionsHeap' = r.definitions
                        /\ UNCHANGED <<settingsHeap, propsHeap, pending>>

\* ------------------------------------------------------------ specifications

\* The registry of a constructed DataSource: define, defineProperty,
\* tableName, copyModel and transaction.
Next ==
    \/ \E s \in SchemaIds, n \in ClassNames \cup {""}, tb \in TableValues : define(s, n, tb)
    \/ \E n \in ClassNames, k \in PropKeys : defineProperty(DS, n, k, "String")
    \/ \E s \in SchemaIds, n \in ClassNames : tableName(s, n)
    \/ \E t \in SchemaIds, src \in SchemaIds, n \in ClassNames : copyModel(t, src, n)
    \/ \E t \in TxIds, c \in TxAdapterCaps : transaction(DS, t, c)

Spec == Init /\ [][Next]_vars

\* The lifecycle: construction, connect and its completions, disconnect, the
\* discovery delegates, and transaction (whose context reuses connect).
NextLife ==
    \/ \E k \in NameKinds, sets \in BOOLEAN, caps \in AdapterCaps, m \in {"sync", "async"} :
          DataSource(k, sets, caps, m)
    \/ \E p \in BagToSet(pending) : InitDone(p)
    \/ \E s \in SchemaIds, cb \in Cbs, e \in NoErr \cup Errors : connect(s, cb, "sync", e)
    \/ \E s \in SchemaIds, cb \in Cbs : connect(s, cb, "async", Undefined)
    \/ \E p \in BagToSet(pending), e \in NoErr \cup Errors : ConnectCb(p, e)
    \/ \E p \in BagToSet(pending) : Tick(p)
    \/ \E cb \in Cbs : disconnect(DS, cb)
    \/ \E cb \in Cbs : automigrate(DS, cb)
    \/ \E cb \in Cbs : autoupdate(DS, cb)
    \/ \E cb \in Cbs : isActual(DS, cb)
    \/ \E o \in Options, cb \in Cbs : discoverModels(DS, o, cb)
    \/ \E o \in Options, cb \in Cbs : discoverModelProperties(DS, o, cb)
    \/ \E o \in Owners, t \in Tables, cb \in Cbs : discoverPrimaryKeys(DS, o, t, cb)
    \/ \E o \in Owners, t \in Tables, cb \in Cbs : discoverForeignKeys(DS, o, t, cb)
    \/ \E t \in TxIds, c \in TxAdapterCaps : transaction(DS, t, c)

SpecLife == InitLife /\ [][NextLife]_vars

\* Foreign keys of a constructed DataSource: define, defineProperty,
\* defineForeignKey and the adapter's later completion of it.
NextFk ==
    \/ \E n \in ClassNames \cup {""} : define(DS, n, Undefined)
    \/ \E n \in ClassNames, k \in PropKeys : defineProperty(DS, n, k, "String")
    \/ \E n \in ClassNames, k \in PropKeys, f \in ClassNames, ar \in FkArities,
          e \in NoErr \cup Errors, kt \in KeyTypes :
          defineForeignKey(DS, n, k, f, ar, "sync", e, kt)
    \/ \E n \in ClassNames, k \in PropKeys, f \in ClassNames, ar \in FkArities :
          defineForeignKey(DS, n, k, f, ar, "async", Undefined, Undefined)
    \/ \E p \in BagToSet(pending), e \in NoErr \cup Errors, kt \in KeyTypes :
          ForeignKeyCb(p, e, kt)

SpecFk == Init /\ [][NextFk]_vars

\* -------------------------------------------------------------- properties

BornSchemas == {s \in SchemaIds : born[s]}
BornTx == {t \in TxIds : born[t]}
\* The events raised and completions invoked by the last operation, in order.
Visible(tr) == SelectSeq(tr, LAMBDA e : e.kind \in {"emit", "cb"})
RegistryOps == {"define", "copyModel", "transaction"}

\* C1: in every reachable state the key set of `models` equals the key set of
\* `definitions`, for the DataSource and for every transaction context; and a
\* define that registered a name leaves that name bound to the class and the
\* TypeDescriptor of this latest call (a second define replaces the first).
C1_ModelsMatchDefinitions ==
    /\ \A s \in BornSchemas : Keys(Models(s)) = Keys(Definitions(s))
    /\ (last.op = "define" /\ last.ret # Undefined) =>
          /\ Models(last.who)[last.ret] =
                [present |-> TRUE, def |-> Len(settingsHeap), owner |-> last.who]
          /\ Definitions(last.who)[last.ret] =
                [present |-> TRUE, properties |-> Len(settingsHeap),
                 settings |-> Len(settingsHeap)]

\* C1 witness: a type was defined twice on the DataSource, and copyModel has
\* just stored the replacing class in an open transaction's registry.
C1_Witness ==
    /\ born[1]
    /\ last.op = "copyModel" /\ last.who = 1
    /\ Models(DS)["A"].present /\ Models(DS)["A"].def = 2
    /\ Models(1)["A"].present /\ Models(1)["A"].def = 2
    /\ Keys(Models(DS)) = {"A"}

\* C2: the context transaction() returns holds exactly the parent's type names,
\* in mapping objects that are never the parent's; from then on an operation
\* that changes one schema's registry (define, copyModel, transaction) leaves
\* the models and definitions mappings of every other existing schema as they
\* were.
C2_NewContextCopies ==
    (last.op = "transaction" /\ last.threw = "none") =>
        \E t \in BornTx :
            /\ \A u \in BornTx : u <= t
            /\ Keys(Models(t)) = Keys(Models(DS))
            /\ Keys(Definitions(t)) = Keys(Definitions(DS))

C2_DistinctMappings ==
    \A t \in BornTx : \A s \in BornSchemas \ {t} :
        /\ modelsRef[t] # modelsRef[s]
        /\ definitionsRef[t] # definitionsRef[s]

C2_OthersUntouched ==
    \A s \in BornSchemas :
        (last'.op \in RegistryOps /\ last'.who # s) =>
            /\ Models(s)' = Models(s)
            /\ Definitions(s)' = Definitions(s)

\* C2 (the formula): the three parts above, in every state and every step.
C2_TransactionIsolated ==
    /\ [](C2_NewContextCopies /\ C2_DistinctMappings)
    /\ [][C2_OthersUntouched]_vars

\* C2 witness: the transaction was opened on a parent holding {A}; B has just
\* been defined on the transaction's registry and is not in the parent's.
C2_Witness ==
    /\ born[1]
    /\ last.op = "define" /\ last.who = 1 /\ last.ret = "B"
    /\ Keys(Models(DS)) = {"A"}
    /\ Keys(Models(1)) = {"A", "B"}

\* C3 (as claimed): with 'A' and 'B' declared on the parent and copied into a
\* transaction, tableName run against the transaction's registry (it writes
\* settings.table of the transaction's type) leaves the contents of every
\* settings object of the parent's registry unchanged.
C3_ParentSettingsUntouched ==
    [][ (/\ last'.op = "tableName" /\ last'.who \in TxIds
         /\ Keys(Definitions(DS)) = {"A", "B"}
         /\ Keys(Definitions(last'.who)) = {"A", "B"})
        => \A n \in ClassNames :
              settingsHeap'[Definitions(DS)[n].settings] =
              settingsHeap[Definitions(DS)[n].settings] ]_vars

\* The last operation ran the connect callback (later, or inside connect) with err.
ConnectReported(errs) ==
    \/ last.op = "connectCb" /\ last.args[1] \in errs
    \/ last.op = "connect" /\ Len(last.args) = 2 /\ last.args[2] \in errs
ReportedErr == IF last.op = "connectCb" THEN last.args[1] ELSE last.args[2]

\* C4: when the adapter's connect reports success to a connect(completion)
\* call, the 'connected' event is raised once, observed with connected = true
\* and connecting = false, then the completion is invoked once with the
\* (empty) error, and nothing else is raised or invoked.
C4_ConnectSuccessOrder ==
    (ConnectReported(NoErr) /\ last.cb # Undefined) =>
        /\ Visible(trace) =
              <<Eff("emit", last.who, "connected", <<>>, TRUE, FALSE),
                Eff("cb", last.who, last.cb, <<ReportedErr>>, TRUE, FALSE)>>
        /\ connected[last.who] /\ ~connecting[last.who]
        /\ last.threw = "none"

\* C4 witness: a pending connect callback of a schema that was not connected
\* has just fired with success.
C4_Witness ==
    /\ last.op = "connectCb" /\ last.args[1] \in NoErr
    /\ last.cb # Undefined /\ ~last.preConnected
    /\ connected[last.who]

\* C5: when the adapter's connect reports an error e, the completion is invoked
\* exactly once, with e itself, no event is raised, and connected is what it
\* was before.
C5_ConnectErrorPropagated ==
    (ConnectReported(Errors) /\ last.cb # Undefined) =>
        /\ Len(Visible(trace)) = 1
        /\ Visible(trace)[1].kind = "cb"
        /\ Visible(trace)[1].what = last.cb
        /\ Visible(trace)[1].args = <<ReportedErr>>
        /\ connected[last.who] = last.preConnected
        /\ last.threw = "none"

\* C5 witness: a pending connect callback has fired with an error while the
\* schema was not connected.
C5_Witness ==
    /\ last.op = "connectCb" /\ last.args[1] \in Errors
    /\ last.cb # Undefined /\ ~last.preConnected /\ ~connected[last.who]

\* C6 (as claimed): connect(completion) on an adapter without a connect
\* operation does not invoke the completion itself but queues it for the next
\* tick, where it runs with no error; and the call leaves connected and
\* connecting as they were.
C6_NoConnectOpLeavesFlags ==
    /\ (/\ last.op = "connect" /\ last.cb # Undefined
        /\ adapter[last.who].present /\ ~Has(adapter[last.who], "connect"))
       => /\ Visible(trace) = <<>>
          /\ \E i \in 1..Len(trace) : trace[i].kind = "tick" /\ trace[i].what = last.cb
          /\ connected[last.who] = last.preConnected
          /\ connecting[last.who] = last.preConnecting
    /\ last.op = "tick" =>
          /\ Len(trace) = 1
          /\ trace[1].kind = "cb" /\ trace[1].what = last.cb /\ trace[1].args = <<>>

\* C7: disconnect(completion) on a DataSource with an adapter: if the adapter
\* has a disconnect operation it is invoked once, with the caller's completion,
\* at a moment when connected already reads false, and the DataSource invokes
\* nothing else; otherwise the completion is invoked at once with no error and
\* both flags are as before.
C7_Disconnect ==
    (last.op = "disconnect" /\ adapter[last.who].present) =>
        /\ last.threw = "none"
        /\ IF Has(adapter[last.who], "disconnect")
           THEN /\ trace = <<Eff("adapter", last.who, "disconnect", <<last.cb>>,
                                 FALSE, last.preConnecting)>>
                /\ ~connected[last.who]
           ELSE /\ trace = IF last.cb # Undefined
                           THEN <<Eff("cb", last.who, last.cb, <<>>,
                                      last.preConnected, last.preConnecting)>>
                           ELSE <<>>
                /\ connected[last.who] = last.preConnected
                /\ connecting[last.who] = last.preConnecting

\* C7 witness: disconnect(completion) has just run on a connected DataSource
\* whose adapter has a disconnect operation.
C7_Witness ==
    /\ last.op = "disconnect" /\ last.cb # Undefined
    /\ Has(adapter[DS], "disconnect")
    /\ last.preConnected /\ ~connected[DS]

DiscoveryOps == {"automigrate", "autoupdate", "isActual", "discoverModels",
                 "discoverModelProperties", "discoverPrimaryKeys", "discoverForeignKeys"}

\* C8 (as claimed): on a DataSource with no adapter every delegated operation
\* returns without throwing, and autoupdate(cb) invokes cb with no error.
C8_NoBackendNoOps ==
    (/\ born[DS] /\ last.who = DS /\ ~adapter[DS].present
     /\ last.op \in DiscoveryOps \cup {"defineProperty", "disconnect"})
    => /\ last.threw = "none"
       /\ (last.op = "autoupdate" /\ last.cb # Undefined) =>
             Visible(trace) = <<Eff("cb", DS, last.cb, <<>>, connected[DS], connecting[DS])>>

\* C9 (as claimed): constructing a DataSource from an identifier for which no
\* adapter can be loaded does not throw, reports a warning, raises no event,
\* and leaves connected = false, connecting = false and no adapter.
C9_UnresolvedNeverThrows ==
    (last.op = "new" /\ last.args[1] \in {"abspathMissing", "foreignMissing"}) =>
        /\ last.threw = "none"
        /\ born[DS]
        /\ ~connected[DS] /\ ~connecting[DS] /\ ~adapter[DS].present
        /\ \E i \in 1..Len(trace) : trace[i].kind = "warn"
        /\ Visible(trace) = <<>>

\* C10: each of the seven delegates, on a DataSource with an adapter: if the
\* adapter has the operation of the same name it is called exactly once with
\* the caller's arguments followed by the caller's completion, and the
\* DataSource invokes no completion; otherwise the completion (if given) is
\* invoked exactly once, at once, with no error, and for isActual with
\* (null, true).  Apart from that only freezeSchema may be called.
C10_Delegates ==
    (last.op \in DiscoveryOps /\ adapter[last.who].present) =>
        LET rest == SelectSeq(trace, LAMBDA e : ~(e.kind = "adapter" /\ e.what = "freezeSchema"))
            c == connected[last.who]
            g == connecting[last.who]
        IN  /\ last.threw = "none"
            /\ IF Has(adapter[last.who], last.op)
               THEN rest = <<Eff("adapter", last.who, last.op,
                                 last.args \o <<last.cb>>, c, g)>>
               ELSE IF last.cb # Undefined
               THEN rest = <<Eff("cb", last.who, last.cb,
                                 IF last.op = "isActual" THEN <<"null", "true">> ELSE <<>>,
                                 c, g)>>
               ELSE rest = <<>>
            /\ c = last.preConnected /\ g = last.preConnecting

\* C10 witness: isActual(cb) has just run on a DataSource whose adapter
\* implements only initialize and define, and cb was called with (null, true).
C10_Witness ==
    /\ last.op = "isActual" /\ last.cb # Undefined
    /\ adapter[DS].present /\ adapter[DS].caps = StubCaps
    /\ Len(trace) = 1 /\ trace[1].kind = "cb" /\ trace[1].args = <<"null", "true">>

\* The calls of the adapter's foreign-key-type resolution among the effects tr.
ResolutionCalls(tr) ==
    SelectSeq(tr, LAMBDA e : e.kind = "adapter" /\ e.what = "defineForeignKey")

\* C11: defineForeignKey is idempotent, whatever the adapter (one that reports
\* the key type later included): when it is called twice in a row for the same
\* (type, key) and neither call throws, the two calls together invoke the
\* adapter's foreign-key-type resolution at most once, and the field is
\* present in the type's properties after the second call.
C11_ForeignKeyIdempotent ==
    [][(/\ last.op = "defineForeignKey" /\ last'.op = "defineForeignKey"
        /\ last'.who = last.who /\ last'.args = last.args
        /\ last.threw = "none" /\ last'.threw = "none")
       => LET d == definitionsHeap'[definitionsRef'[last.who]][last.args[1]]
          IN  /\ Len(ResolutionCalls(trace)) + Len(ResolutionCalls(trace')) <= 1
              /\ propsHeap'[d.properties][last.args[2]] # Undefined]_vars

\* C12: tableName is memoized and idempotent.  For a declared type, a call
\* that finds no table configured (settings.table absent or empty) returns the
\* type name and stores it in the type's settings; a call that finds a table
\* returns it and leaves it unchanged; and of two successive calls for the
\* same TypeDescriptor the second returns what the first returned.
C12_TableNameMemoized ==
    [][(last'.op = "tableName" /\ last'.threw = "none")
       => LET n == last'.args[1]
              d == Definitions(last'.who)[n]
              t == settingsHeap[d.settings]
          IN  /\ t \in {Undefined, ""} =>
                    last'.ret = n /\ settingsHeap'[d.settings] = n
              /\ t \notin {Undefined, ""} =>
                    last'.ret = t /\ settingsHeap'[d.settings] = t
              /\ (/\ last.op = "tableName" /\ last.threw = "none" /\ last.args = last'.args
                  /\ Definitions(last.who)[n].settings = d.settings)
                 => last'.ret = last.ret]_vars

\* C12 witness: tableName has just been called through a transaction context
\* for a type declared without a table; it returned the type name, which is
\* now the table stored in the type's settings.
C12_Witness ==
    /\ last.op = "tableName" /\ last.threw = "none" /\ last.who \in TxIds
    /\ last.ret = last.args[1]
    /\ settingsHeap[Definitions(last.who)[last.args[1]].settings] = last.ret

\* The steps in which the adapter or the runtime, not the caller, runs code of
\* the DataSource: a completion called after the operation returned.
CompletionOps == {"initDone", "connectCb", "tick", "fkCb"}

\* C13: no operation throws across an asynchronous boundary: a completion
\* that the adapter (or the tick queue) invokes after the caller's call has
\* returned never throws; errors are thrown only inside the caller's own call.
C13_NoThrowAcrossAsync ==
    last.op \in CompletionOps => last.threw = "none"

\* The initialize completion is still in flight.
InitializePending == \E p \in BagToSet(pending) : p.kind = "initDone"
\* The last step ran the initialize completion: inside the constructor, or later.
InitializeCompleted ==
    \/ last.op = "initDone"
    \/ /\ last.op = "new" /\ ~InitializePending
       /\ \E i \in 1..Len(trace) : trace[i].kind = "adapter" /\ trace[i].what = "initialize"
ConnectedEvents(tr) == SelectSeq(tr, LAMBDA e : e.kind = "emit" /\ e.what = "connected")
Hooks(tr) == SelectSeq(tr, LAMBDA e : e.kind = "hook")

\* What C14 says of the step that runs the initialize completion: if the
\* adapter populated the adapter field, nothing is thrown, the log and logger
\* hooks are installed, connected is true and exactly one 'connected' event is
\* raised, after the hooks and with connected already true; if it did not,
\* the fatal error is thrown, connected is false and no event is raised.
InitializeCompletionOutcome ==
    InitializeCompleted =>
        IF last.threw = "none"
        THEN /\ adapter[last.who].present /\ adapter[last.who].hooks
             /\ connected[last.who]
             /\ Len(ConnectedEvents(trace)) = 1
             /\ ConnectedEvents(trace)[1].connected
             /\ trace[Len(trace)] = ConnectedEvents(trace)[1]
             /\ [i \in 1..Len(Hooks(trace)) |-> Hooks(trace)[i].what] = <<"log", "logger">>
        ELSE /\ last.threw = "Error: Adapter is not defined correctly"
             /\ ~adapter[last.who].present
             /\ ~connected[last.who]
             /\ ConnectedEvents(trace) = <<>>

\* C14 (as stated): the outcome of the initialize completion as above, and in
\* every state in which initialize has not completed yet, connected is false.
C14_ConnectedOnlyAfterInitialize ==
    /\ InitializeCompletionOutcome
    /\ InitializePending => ~connected[DS]

\* C14 (amended): the outcome of the initialize completion as above; when the
\* constructor returns with the completion still in flight, connected is
\* false and no event has been raised; and while the completion is in flight
\* connected becomes true only by a connect call on the DataSource whose
\* adapter reported success.
C14_InitializeCompletion ==
    /\ [](/\ InitializeCompletionOutcome
          /\ (last.op = "new" /\ InitializePending) =>
                (~connected[DS] /\ ConnectedEvents(trace) = <<>>))
    /\ [][(InitializePending /\ InitializePending' /\ ~connected[DS] /\ connected'[DS])
           => /\ last'.op \in {"connect", "connectCb"} /\ last'.who = DS
              /\ Len(ConnectedEvents(trace')) = 1]_vars

\* C14 witness: the adapter has just called the initialize completion, after
\* the constructor returned, and the DataSource became connected.
C14_Witness ==
    /\ last.op = "initDone" /\ last.threw = "none"
    /\ connected[DS] /\ adapter[DS].hooks
    /\ Len(ConnectedEvents(trace)) = 1

\* C15: in every reachable state every DataSource (and transaction context)
\* is in exactly one of the lifecycle states disconnected, connecting,
\* connected: its flags connected and connecting are never both true.
C15_OneLifecycleState ==
    \A s \in BornSchemas : ~(connected[s] /\ connecting[s])

\* The calls of adapter.define among the effects tr, on any adapter.
DefineCalls(tr) == SelectSeq(tr, LAMBDA e : e.kind = "adapter" /\ e.what = "define")

\* C16: transaction() calls adapter.define zero times, on the parent's adapter
\* and on the transactional one; copyModel calls adapter.define only when its
\* target is not a transaction and the name was not in the target's models;
\* and when the name was already there, copyModel leaves the target's models
\* and definitions as they were and calls no adapter.
C16_TransactionNeverDefines ==
    [][/\ last'.op = "transaction" => DefineCalls(trace') = <<>>
       /\ last'.op = "copyModel" =>
            LET t == last'.who
                n == last'.args[1]
            IN  /\ DefineCalls(trace') # <<>> =>
                      (~isTransaction[t] /\ ~Models(t)[n].present)
                /\ Models(t)[n].present =>
                      /\ modelsHeap'[modelsRef[t]] = Models(t)
                      /\ definitionsHeap'[definitionsRef[t]] = Definitions(t)
                      /\ trace' = <<>>]_vars

\* C16 witness: transaction() has just copied at least one type of the parent
\* into the new context, and the only adapter call it made is
\* adapter.transaction.
C16_Witness ==
    /\ last.op = "transaction" /\ last.threw = "none"
    /\ \E t \in BornTx : Keys(Models(t)) # {}
    /\ Len(trace) = 1 /\ trace[1].what = "transaction"

ConnectOps == {"connect", "connectCb", "tick"}
ConnectCalls(tr) == SelectSeq(tr, LAMBDA e : e.kind = "adapter" /\ e.what = "connect")

\* C17: a transaction context starts with connected = false and connecting =
\* false whatever the parent's flags are, and transaction() leaves the
\* parent's flags unchanged; connect called on a context, and every later
\* completion of it, changes no other schema's flags (the parent's included),
\* raises its events and invokes its completion on the context only, and
\* calls adapter.connect exactly when the context's own adapter has it.
C17_ContextLifecycleIsItsOwn ==
    [][/\ (last'.op = "transaction" /\ last'.threw = "none") =>
            /\ \A t \in TxIds : (~born[t] /\ born'[t]) => (~connected'[t] /\ ~connecting'[t])
            /\ connected'[DS] = connected[DS] /\ connecting'[DS] = connecting[DS]
       /\ (last'.op \in ConnectOps /\ last'.who \in TxIds) =>
            /\ \A u \in SchemaIds \ {last'.who} :
                  connected'[u] = connected[u] /\ connecting'[u] = connecting[u]
            /\ \A i \in 1..Len(trace') : trace'[i].who = last'.who
            /\ (last'.op = "connect" /\ last'.threw = "none") =>
                  (ConnectCalls(trace') # <<>> <=> Has(adapter[last'.who], "connect"))]_vars

\* C17 witness: connect on a transaction context has just succeeded: the
\* context is connected and raised 'connected', while its parent is not
\* connected.
C17_Witness ==
    /\ last.op \in {"connect", "connectCb"} /\ last.who \in TxIds
    /\ connected[last.who] /\ ~connected[DS]
    /\ \E i \in 1..Len(trace) : trace[i].kind = "emit" /\ trace[i].who = last.who

\* A completion of a connect call on schema s is still in flight.
ConnectPending(s) ==
    \E p \in BagToSet(pending) : p.who = s /\ p.kind \in {"connectCb", "tick"}
\* The last step ran the completion of a connect call: the adapter's connect
\* callback (inside connect, or later) or the next-tick completion.
ConnectCompleted ==
    \/ last.op \in {"connectCb", "tick"}
    \/ last.op = "connect" /\ last.threw = "none" /\ Len(last.args) = 2

\* C18: connecting is true only while a connect call is in flight: once the
\* completion of a connect call has run (the adapter's callback with success
\* or with an error, or the next-tick completion) and no other connect call
\* on that schema is pending, its connecting flag is false.
C18_ConnectingOnlyInFlight ==
    (ConnectCompleted /\ ~ConnectPending(last.who)) => ~connecting[last.who]

\* C19: disconnect wins over an earlier connect, on an adapter that has both
\* operations: when disconnect has been called and the next thing that
\* happens is the adapter calling the callback of a connect started before
\* it (no connect was called in between), connected is still false
\* afterwards and no 'connected' event is raised, even if the callback
\* reports success.
C19_DisconnectWins ==
    [][(/\ last.op = "disconnect" /\ last.threw = "none"
        /\ Has(adapter[last.who], "disconnect") /\ Has(adapter[last.who], "connect")
        /\ last'.op = "connectCb" /\ last'.who = last.who)
       => /\ ~connected'[last.who]
          /\ ConnectedEvents(trace') = <<>>]_vars

\* The notifications of the owning type among the effects tr.
RegisterCalls(tr) ==
    SelectSeq(tr, LAMBDA e : e.kind = "model" /\ e.what = "registerProperty")

\* C20: a defineForeignKey for a key not yet defined, that does not throw,
\* calls registerProperty(key) exactly once, and at that moment the
\* FieldDescriptor of the key is installed in the type's properties: the
\* generic numeric type when the adapter has no foreign-key-type resolution,
\* the key type the adapter reported when it has (called in its 3- or
\* 4-argument form, completing at once or later).
C20_RegisterAfterInstall ==
    [][(/\ last'.op = "defineForeignKey" /\ last'.threw = "none"
        /\ Definitions(last'.who)[last'.args[1]].present
        /\ propsHeap[Definitions(last'.who)[last'.args[1]].properties][last'.args[2]] = Undefined)
       => /\ Len(RegisterCalls(trace')) = 1
          /\ LET installed == RegisterCalls(trace')[1].args[3]
             IN  IF Has(adapter[last'.who], "defineForeignKey")
                 THEN Len(ResolutionCalls(trace')) = 1 /\ installed \in KeyTypes
                 ELSE ResolutionCalls(trace') = <<>> /\ installed = "Number"]_vars

====
